---- MODULE Spec2Model ----
(***************************************************************************)
(* Model of vagga's launcher::supervisor::run_supervise_command            *)
(* (src/src/launcher/supervisor.rs): classification of the children of a   *)
(* supervise command, launch of the host-network children, construction    *)
(* of the network namespace topology, launch of the children living in a   *)
(* network namespace, and the two signal loops ("normal" and "stopping").  *)
(*                                                                         *)
(* The supervisor is single threaded.  Every action below is either one    *)
(* synchronous step of the function (up to its next fallible call or its   *)
(* next blocking wait on the trap) or one step of the environment: a       *)
(* child process exiting, an external SIGINT/SIGTERM reaching the          *)
(* supervisor.                                                             *)
(***************************************************************************)
EXTENDS Integers, Sequences, FiniteSets, TLC

\* ------------------------------------------------------------- bounds
\* Largest number of children of a supervise command that is explored.
MaxChildren == 2

\* ---------------------------------------------------- program constants
SIGINT == 2
SIGTERM == 15
SIGCHLD == 17
\* Ok(122): the argument parser rejected the command line.
ArgErrCode == 122
\* `let mut errcode = 127;` of the launch-error branch.
LaunchFailCode == 127

\* ------------------------------------------------------------ data model
\* config::command::ChildCommand seen through the classification loop:
\* a BridgeCommand, a command with a `network` section, a command without.
Kinds == {"host", "netns", "bridge"}
Modes == {"stop_on_failure", "restart"}

\* Exit statuses a reaped process can report (unshare::ExitStatus).  The
\* status of an exited process is seen by nobody until the process is
\* waited for: it is drawn where reap_zombies() yields it.
Statuses == {<<"exit", 0>>, <<"exit", 1>>, <<"signal", 9>>}
NoStatus == <<"none", 0>>

\* process_util::convert_status: the exit code of a normal exit, 128+signal
\* for a process killed by a signal.
convert_status(st) == IF st[1] = "exit" THEN st[2] ELSE 128 + st[2]

\* The plans: sup.children is a map iterated in name order; child i is the
\* i-th name and the plan gives its kind.
Plans == UNION {[1..n -> Kinds] : n \in 0..MaxChildren}

\* Network namespaces the supervisor process can be attached to.
NsHost == <<"host", 0>>
NsGateway == <<"gateway", 0>>
NsBridge == <<"bridge", 0>>
NsChild(i) == <<"child", i>>

NoResult == <<"none", 0>>
Ok(code) == <<"ok", code>>
Err(step) == <<"err", step>>

VARIABLES
    sup,            \* [mode, children]: the SuperviseInfo of the run
    netns_set_up,   \* network::is_netns_set_up()
    pc,             \* position of the supervisor in run_supervise_command
    idx,            \* position in the launch loop being executed
    children,       \* keys of the `children` HashMap (pid of child i is i)
    error,          \* `error`
    errcode,        \* the outer `errcode`
    result,         \* value returned by run_supervise_command
    proc,           \* per child: "none", "running", "zombie", "reaped"
    stray,          \* an exited process that is in no map waits to be reaped
    pending,        \* signals pending in the trap
    signalled,      \* pids the supervisor sent SIGTERM to
    port_forward_guard, \* "none", "new", "started", "released"
    cur_net,        \* network namespace of the supervisor process
    cur_uts,        \* UTS namespace of the supervisor process
    removed,        \* per pid: number of successful children.remove(pid)
    log,            \* launch-phase history: steps done, in order
    trigger,        \* what made the supervisor leave the normal loop
    survivors,      \* the tracked set when the normal loop was left
    first_exit      \* <<pid, status>> of the reaped child that set errcode

vars == <<sup, netns_set_up, pc, idx, children, error, errcode, result, proc,
          stray, pending, signalled, port_forward_guard, cur_net,
          cur_uts, removed, log, trigger, survivors, first_exit>>

\* ------------------------------------------------------- classification
RECURSIVE Filter(_, _, _)
\* names of the children of plan p, from position i on, whose kind is k
Filter(p, k, i) ==
    IF i > Len(p) THEN <<>>
    ELSE (IF p[i] = k THEN <<i>> ELSE <<>>) \o Filter(p, k, i + 1)

Range(s) == {s[i] : i \in 1..Len(s)}

containers_host_net == Filter(sup.children, "host", 1)
bridges == Filter(sup.children, "bridge", 1)
\* The bridges put in front of the namespaced children.
containers_in_netns_bridges_first ==
    bridges \o Filter(sup.children, "netns", 1)
\* containers_in_netns.extend(bridges): bridges are just last
containers_in_netns == Filter(sup.children, "netns", 1) \o bridges

Init ==
    /\ sup \in [mode : Modes, children : Plans]
    /\ netns_set_up \in BOOLEAN
    /\ pc = "start"
    /\ idx = 0
    /\ children = {}
    /\ error = FALSE
    /\ errcode = 0
    /\ result = NoResult
    /\ proc = [i \in 1..MaxChildren |-> "none"]
    /\ stray = FALSE
    /\ pending = {}
    /\ signalled = {}
    /\ port_forward_guard = "none"
    /\ cur_net = NsHost
    /\ cur_uts = NsHost
    /\ removed = [i \in 1..MaxChildren |-> 0]
    /\ log = <<>>
    /\ trigger = "none"
    /\ survivors = {}
    /\ first_exit = <<0, NoStatus>>

\* variables no launch step touches
LoopVars == <<errcode, removed, trigger, survivors, signalled, first_exit>>
EnvVars == <<proc, stray, pending>>

\* Leaving the function drops its locals; dropping a PortForwardGuard that
\* was constructed releases it (network::PortForwardGuard, Drop).
Drop(g) == IF g \in {"new", "started"} THEN "released" ELSE g

\* The guard kept alive past the return (moved out or forgotten).
ScopeExitLeak(g) == g
\* line 114: port_forward_guard is a local of the function body, declared
\* outside the `if`, so every return of the function after line 130 (a
\* failing try! or line 266) ends its scope and drops it.
ScopeExit(g) == Drop(g)

\* The supervisor has set its trap and has not left the function: signals
\* sent to it are held pending, children it spawned may run and exit.
Trapped ==
    pc \in {"host", "mkdir", "join_gw", "unshare_mount", "mount_tmpfs",
            "setup_bridge", "start_fwd", "ns_setbridge", "ns_setup",
            "ns_setnet", "ns_setuts", "ns_spawn", "reattach", "decide",
            "running", "stopping"}

\* The same call with its error dropped instead of returned.
TryIgnoreError(ok, step, n, next, g) ==
    /\ log' = Append(log, [ev |-> step, n |-> n, ok |-> ok])
    /\ pc' = next
    /\ result' = result
    /\ port_forward_guard' = g

\* A fallible call wrapped in `try!`: on success the function goes on to
\* `next`, on failure it returns Err at once.  g is the guard's state at
\* that point.
Try(ok, step, n, next, g) ==
    /\ log' = Append(log, [ev |-> step, n |-> n, ok |-> ok])
    /\ IF ok
       THEN /\ pc' = next
            /\ result' = result
            /\ port_forward_guard' = g
       ELSE /\ pc' = "failed"
            /\ result' = Err(step)
            /\ port_forward_guard' = ScopeExit(g)

\* ------------------------------------------------- before the first spawn
\* lines 35-37
CheckMode ==
    /\ pc = "start"
    /\ pc' = IF sup.mode # "stop_on_failure" THEN "panic" ELSE "parse"
    /\ UNCHANGED <<sup, netns_set_up, idx, children, error, result,
                   port_forward_guard, cur_net, cur_uts, log>>
    /\ UNCHANGED <<LoopVars, EnvVars>>

\* lines 38-51: the argument parser accepts the arguments, prints the help
\* (Err(0)) or rejects them
ParseArgs ==
    /\ pc = "parse"
    /\ \E r \in {"ok", "help", "bad"} :
          /\ pc' = IF r = "ok" THEN "classify" ELSE "returned"
          /\ result' = CASE r = "ok" -> result
                          [] r = "help" -> Ok(0)
                          [] r = "bad" -> Ok(ArgErrCode)
    /\ UNCHANGED <<sup, netns_set_up, idx, children, error,
                   port_forward_guard, cur_net, cur_uts, log>>
    /\ UNCHANGED <<LoopVars, EnvVars>>

\* lines 53-79: build every container once and sort the children into
\* containers_host_net / containers_in_netns / bridges
Classify ==
    /\ pc = "classify"
    /\ \E ok \in BOOLEAN :
          Try(ok \/ Len(sup.children) = 0, "build_container", 0,
              "check_netns", port_forward_guard)
    /\ UNCHANGED <<sup, netns_set_up, idx, children, error, cur_net, cur_uts>>
    /\ UNCHANGED <<LoopVars, EnvVars>>

\* line 80: the condition of the configuration error
NetnsMissingNever == FALSE
NetnsMissing == Len(containers_in_netns) > 0 /\ ~netns_set_up

\* lines 80-85
CheckNetns ==
    /\ pc = "check_netns"
    /\ IF NetnsMissing
       THEN /\ pc' = "failed"
            /\ result' = Err("netns_not_set_up")
       ELSE /\ pc' = "trap"
            /\ result' = result
    /\ UNCHANGED <<sup, netns_set_up, idx, children, error,
                   port_forward_guard, cur_net, cur_uts, log>>
    /\ UNCHANGED <<LoopVars, EnvVars>>

\* lines 87-89
SetTrap ==
    /\ pc = "trap"
    /\ pc' = "host"
    /\ idx' = 1
    /\ children' = {}
    /\ error' = FALSE
    /\ UNCHANGED <<sup, netns_set_up, result, port_forward_guard, cur_net,
                   cur_uts, log>>
    /\ UNCHANGED <<LoopVars, EnvVars>>

\* ---------------------------------------------------------------- spawn
\* lines 100-112 and 168-180: cmd.spawn() of child `name`; a child that
\* started is inserted into `children`, a failure sets `error`
Spawn(name, ok) ==
    /\ log' = Append(log, [ev |-> "spawn", n |-> name, ok |-> ok])
    /\ IF ok
       THEN /\ children' = children \cup {name}
            /\ proc' = [proc EXCEPT ![name] = "running"]
            /\ error' = error
       ELSE /\ children' = children
            /\ proc' = proc
            /\ error' = TRUE

\* line 90: the host-net loop goes on to the next name whatever the spawn
\* returned
HostLoopBreakOnError(i, ok) ==
    IF ok THEN i + 1 ELSE Len(containers_host_net) + 1
HostLoopNext(i, ok) == i + 1

\* lines 90-113, one iteration
SpawnHost ==
    /\ pc = "host"
    /\ idx <= Len(containers_host_net)
    /\ \E ok \in BOOLEAN :
          /\ Spawn(containers_host_net[idx], ok)
          /\ idx' = HostLoopNext(idx, ok)
    /\ UNCHANGED <<sup, netns_set_up, pc, result, port_forward_guard,
                   cur_net, cur_uts, stray, pending>>
    /\ UNCHANGED LoopVars

\* lines 113-115: the loop is over
HostDone ==
    /\ pc = "host"
    /\ idx > Len(containers_host_net)
    /\ pc' = IF Len(containers_in_netns) > 0 THEN "mkdir" ELSE "decide"
    /\ idx' = 0
    /\ UNCHANGED <<sup, netns_set_up, children, error, result,
                   port_forward_guard, cur_net, cur_uts, log>>
    /\ UNCHANGED <<LoopVars, EnvVars>>

\* --------------------------------------------------------------- topology
TopoFrame ==
    /\ UNCHANGED <<sup, netns_set_up, idx, children, error>>
    /\ UNCHANGED <<LoopVars, EnvVars>>

\* lines 116-121: create_dir(nsdir) unless it exists
CreateDir ==
    /\ pc = "mkdir"
    /\ \E ok \in BOOLEAN : Try(ok, "create_dir", 0, "join_gw", port_forward_guard)
    /\ UNCHANGED <<cur_net, cur_uts>>
    /\ TopoFrame

\* line 122: network::join_gateway_namespaces()
JoinGateway ==
    /\ pc = "join_gw"
    /\ \E ok \in BOOLEAN :
          /\ Try(ok, "join_gateway_namespaces", 0, "unshare_mount",
                 port_forward_guard)
          /\ cur_net' = IF ok THEN NsGateway ELSE cur_net
    /\ UNCHANGED cur_uts
    /\ TopoFrame

\* lines 123-124: unshare_namespace(NewMount)
UnshareMount ==
    /\ pc = "unshare_mount"
    /\ \E ok \in BOOLEAN :
          Try(ok, "unshare_namespace", 0, "mount_tmpfs", port_forward_guard)
    /\ UNCHANGED <<cur_net, cur_uts>>
    /\ TopoFrame

\* line 125: mount_tmpfs(nsdir)
MountTmpfs ==
    /\ pc = "mount_tmpfs"
    /\ \E ok \in BOOLEAN :
          Try(ok, "mount_tmpfs", 0, "setup_bridge", port_forward_guard)
    /\ UNCHANGED <<cur_net, cur_uts>>
    /\ TopoFrame

\* lines 127-128: network::setup_bridge(bridge_ns, forwards)
SetupBridge ==
    /\ pc = "setup_bridge"
    /\ \E ok \in BOOLEAN :
          Try(ok, "setup_bridge", 0, "start_fwd", port_forward_guard)
    /\ UNCHANGED <<cur_net, cur_uts>>
    /\ TopoFrame

\* lines 130-134: PortForwardGuard::new, then start_forwarding(); the
\* namespaced loop starts at the first name of containers_in_netns
StartForwarding ==
    /\ pc = "start_fwd"
    /\ \E ok \in BOOLEAN :
          Try(ok, "start_forwarding", 0, "ns_setbridge",
              IF ok THEN "started" ELSE "new")
    /\ idx' = 1
    /\ UNCHANGED <<sup, netns_set_up, children, error, cur_net, cur_uts>>
    /\ UNCHANGED <<LoopVars, EnvVars>>

\* lines 148-166: after the supervisor entered the bridge namespace, a
\* bridge command is spawned as is; any other child gets its own
\* namespaces first
NsSkipSetup(kind) == "ns_spawn"
NsAfterSetBridge(kind) == IF kind = "bridge" THEN "ns_spawn" ELSE "ns_setup"

\* lines 135-147: set_namespace(bridge_ns, NewNet)
NsSetBridge ==
    /\ pc = "ns_setbridge"
    /\ LET name == containers_in_netns[idx] IN
       \E ok \in BOOLEAN :
          /\ Try(ok, "set_namespace_bridge", name,
                 NsAfterSetBridge(sup.children[name]), port_forward_guard)
          /\ cur_net' = IF ok THEN NsBridge ELSE cur_net
    /\ UNCHANGED cur_uts
    /\ TopoFrame

\* lines 153-161: network::setup_container(net_ns, uts_ns, ...)
NsSetupContainer ==
    /\ pc = "ns_setup"
    /\ \E ok \in BOOLEAN :
          Try(ok, "setup_container", containers_in_netns[idx], "ns_setnet",
              port_forward_guard)
    /\ UNCHANGED <<cur_net, cur_uts>>
    /\ TopoFrame

\* lines 162-163: set_namespace(net_ns, NewNet)
NsSetNet ==
    /\ pc = "ns_setnet"
    /\ LET name == containers_in_netns[idx] IN
       \E ok \in BOOLEAN :
          /\ Try(ok, "set_namespace_net", name, "ns_setuts",
                 port_forward_guard)
          /\ cur_net' = IF ok THEN NsChild(name) ELSE cur_net
    /\ UNCHANGED cur_uts
    /\ TopoFrame

\* lines 164-165: set_namespace(uts_ns, NewUts)
NsSetUts ==
    /\ pc = "ns_setuts"
    /\ LET name == containers_in_netns[idx] IN
       \E ok \in BOOLEAN :
          /\ Try(ok, "set_namespace_uts", name, "ns_spawn",
                 port_forward_guard)
          /\ cur_uts' = IF ok THEN NsChild(name) ELSE cur_uts
    /\ UNCHANGED cur_net
    /\ TopoFrame

\* lines 168-181: spawn, then the next name or the end of the loop
NsSpawn ==
    /\ pc = "ns_spawn"
    /\ \E ok \in BOOLEAN : Spawn(containers_in_netns[idx], ok)
    /\ idx' = idx + 1
    /\ pc' = IF idx + 1 <= Len(containers_in_netns)
             THEN "ns_setbridge" ELSE "reattach"
    /\ UNCHANGED <<sup, netns_set_up, result, port_forward_guard,
                   cur_net, cur_uts, stray, pending>>
    /\ UNCHANGED LoopVars

\* The supervisor left in the namespace of the last child it set up.
NetAfterReattachMissing(ok, net) == net
\* line 186: a successful set_namespace(bridge_ns, NewNet) puts the
\* supervisor back into the bridge network namespace
NetAfterReattach(ok, net) == IF ok THEN NsBridge ELSE net

\* lines 183-188: set_namespace(bridge_ns, NewNet) to keep the bridge alive
Reattach ==
    /\ pc = "reattach"
    /\ \E ok \in BOOLEAN :
          /\ Try(ok, "set_namespace_reattach", 0, "decide",
                 port_forward_guard)
          /\ cur_net' = NetAfterReattach(ok, cur_net)
    /\ UNCHANGED cur_uts
    /\ TopoFrame

\* ------------------------------------------------------------ after launch
\* line 244: the stopping loop is entered only with children left
NeedsDrainNever(ch) == FALSE
NeedsDrain(ch) == ch # {}

\* lines 243-266 up to the first wait: with the normal loop left (or
\* skipped) holding the tracked set ch and the outer errcode `code`, the
\* function either blocks in the stopping loop or returns Ok(errcode).
Finish(ch, code) ==
    IF NeedsDrain(ch)
    THEN /\ pc' = "stopping"
         /\ result' = result
         /\ port_forward_guard' = port_forward_guard
    ELSE /\ pc' = "returned"
         /\ result' = Ok(code)
         /\ port_forward_guard' = ScopeExit(port_forward_guard)

\* lines 190-192: `let mut errcode = 127;` inside the branch declares a new
\* variable that shadows the outer one and dies with the block: the outer
\* errcode, the one line 266 returns, keeps the value it had.
ErrorBranchErrcode(outer) == outer

\* lines 193-195: every tracked child is sent SIGTERM
ErrorBranchSignalsNone(ch) == {}
ErrorBranchSignals(ch) == ch

\* lines 190-196, then 243-266 up to the first wait
ErrorBranch ==
    /\ pc = "decide"
    /\ error
    /\ errcode' = ErrorBranchErrcode(0)
    /\ signalled' = signalled \cup ErrorBranchSignals(children)
    /\ trigger' = "spawn_failure"
    /\ survivors' = children
    /\ Finish(children, errcode')
    /\ UNCHANGED <<sup, netns_set_up, idx, children, error, cur_net, cur_uts,
                   removed, log, first_exit>>
    /\ UNCHANGED EnvVars

\* lines 190, 196-199: no launch error, the normal loop is entered
EnterRunning ==
    /\ pc = "decide"
    /\ ~error
    /\ Cardinality(children) > 0
    /\ pc' = "running"
    /\ errcode' = 0
    /\ UNCHANGED <<sup, netns_set_up, idx, children, error, result,
                   port_forward_guard, cur_net, cur_uts, removed, log,
                   trigger, survivors, signalled, first_exit>>
    /\ UNCHANGED EnvVars

\* line 198: assert!(children.len() > 0)
AssertFail ==
    /\ pc = "decide"
    /\ ~error
    /\ Cardinality(children) = 0
    /\ pc' = "panic"
    /\ errcode' = 0
    /\ UNCHANGED <<sup, netns_set_up, idx, children, error, result,
                   port_forward_guard, cur_net, cur_uts, removed, log,
                   trigger, survivors, signalled, first_exit>>
    /\ UNCHANGED EnvVars

\* ------------------------------------------------------------ normal loop
LoopFrame == UNCHANGED <<sup, netns_set_up, idx, error, cur_net, cur_uts, log>>

\* unshare::reap_zombies(): every exited child of the process is waited for
Zombies == {i \in 1..MaxChildren : proc[i] = "zombie"}

\* the sweep reaps the processes of Z (and the untracked one, if any)
Reap(Z) ==
    /\ proc' = [i \in 1..MaxChildren |-> IF i \in Z THEN "reaped" ELSE proc[i]]
    /\ stray' = FALSE

\* children.remove(pid) for every pid of Z; the ones that were in the map
\* are counted
Remove(Z) ==
    /\ children' = children \ Z
    /\ removed' = [i \in 1..MaxChildren |->
                     IF i \in Z \cap children THEN removed[i] + 1
                     ELSE removed[i]]

\* The code built from the number of the other signal.
CodeFromSigterm == 128 + SIGTERM
\* line 206: errcode = 128+SIGINT
SigintCode == 128 + SIGINT

\* lines 201-208
RunSIGINT ==
    /\ pc = "running"
    /\ SIGINT \in pending
    /\ pending' = pending \ {SIGINT}
    /\ errcode' = SigintCode
    /\ trigger' = "sigint"
    /\ survivors' = children
    /\ Finish(children, errcode')
    /\ UNCHANGED <<children, removed, signalled, proc, stray, first_exit>>
    /\ LoopFrame

\* The forwarding given up at the first child whose signal() fails: a
\* child that has already exited makes the others miss the signal.
ForwardUntilError(ch) ==
    IF \E i \in ch : proc[i] = "zombie" THEN {} ELSE ch
\* lines 213-215 and 249-251: child.signal(SIGTERM).ok() for every value of
\* the map; the Result of signal() is discarded, so every tracked child is
\* signalled whatever the call returns for the others.
Forward(ch) == ch

\* line 216: errcode = 128+SIGINT, in the SIGTERM arm too
SigtermCode == 128 + SIGINT

\* lines 209-218
RunSIGTERM ==
    /\ pc = "running"
    /\ SIGTERM \in pending
    /\ pending' = pending \ {SIGTERM}
    /\ signalled' = signalled \cup Forward(children)
    /\ errcode' = SigtermCode
    /\ trigger' = "sigterm"
    /\ survivors' = children
    /\ Finish(children, errcode')
    /\ UNCHANGED <<children, removed, proc, stray, first_exit>>
    /\ LoopFrame

\* The code taken from whatever the sweep yielded last.
ErrcodeLastReaped(first_st, later_st) == convert_status(later_st)
\* lines 220-231: errcode is assigned once, from the status of the first
\* yielded pid that is in the map; the statuses the nested sweep yields
\* (later_st) are dropped.
ErrcodeOfSweep(first_st, later_st) == convert_status(first_st)

\* lines 219-237: the first reaped pid that is in the map sets errcode,
\* the nested sweep removes whatever else has exited and the loop is left
\* without any signal being sent; a sweep that meets no tracked pid leaves
\* the supervisor waiting.
RunSIGCHLD ==
    /\ pc = "running"
    /\ SIGCHLD \in pending
    /\ pending' = pending \ {SIGCHLD}
    /\ Reap(Zombies)
    /\ Remove(Zombies)
    /\ IF Zombies \cap children # {}
       THEN /\ \E first \in Zombies \cap children, st \in Statuses :
                  /\ first_exit' = <<first, st>>
                  /\ \E later \in IF Zombies = {first} /\ ~stray
                                   THEN {st} ELSE Statuses :
                        errcode' = ErrcodeOfSweep(st, later)
            /\ trigger' = "child_exit"
            /\ survivors' = children'
            /\ Finish(children', errcode')
       ELSE /\ UNCHANGED <<errcode, first_exit>>
            /\ IF Cardinality(children') = 0
               THEN /\ trigger' = "child_exit"
                    /\ survivors' = children'
                    /\ Finish(children', errcode')
               ELSE /\ UNCHANGED <<pc, result, port_forward_guard, trigger,
                                   survivors>>
    /\ UNCHANGED signalled
    /\ LoopFrame

\* ---------------------------------------------------------- stopping loop
\* line 247
StopSIGINT ==
    /\ pc = "stopping"
    /\ SIGINT \in pending
    /\ pending' = pending \ {SIGINT}
    /\ UNCHANGED <<pc, children, errcode, result, port_forward_guard,
                   removed, trigger, survivors, signalled, proc, stray,
                   first_exit>>
    /\ LoopFrame

\* lines 248-252
StopSIGTERM ==
    /\ pc = "stopping"
    /\ SIGTERM \in pending
    /\ pending' = pending \ {SIGTERM}
    /\ signalled' = signalled \cup Forward(children)
    /\ UNCHANGED <<pc, children, errcode, result, port_forward_guard,
                   removed, trigger, survivors, proc, stray, first_exit>>
    /\ LoopFrame

\* The loop left after the first sweep, whatever is still tracked.
StopLoopDoneAfterSweep(ch) == TRUE
\* lines 257-259: the stopping loop breaks when the map is empty
StopLoopDone(ch) == Cardinality(ch) = 0

\* A code taken from a status reaped while stopping.
StopErrcodeFromStatus(code, st) == convert_status(st)
\* lines 254-256: the statuses the sweep yields are not looked at, errcode
\* is not assigned in the stopping loop
StopErrcode(code, st) == code

\* lines 253-260, then line 266 when the map became empty
StopSIGCHLD ==
    /\ pc = "stopping"
    /\ SIGCHLD \in pending
    /\ pending' = pending \ {SIGCHLD}
    /\ Reap(Zombies)
    /\ Remove(Zombies)
    /\ \E st \in IF Zombies = {} THEN {NoStatus} ELSE Statuses :
          errcode' = StopErrcode(errcode, st)
    /\ IF StopLoopDone(children')
       THEN /\ pc' = "returned"
            /\ result' = Ok(errcode')
            /\ port_forward_guard' = ScopeExit(port_forward_guard)
       ELSE UNCHANGED <<pc, result, port_forward_guard>>
    /\ UNCHANGED <<trigger, survivors, signalled, first_exit>>
    /\ LoopFrame

\* ------------------------------------------------------------ environment
SupFrame ==
    UNCHANGED <<sup, netns_set_up, pc, idx, children, error, errcode, result,
                signalled, port_forward_guard, cur_net, cur_uts, removed,
                log, trigger, survivors, first_exit>>

\* A trap set only after the host-net loop: what is raised during that
\* loop is not held.
RaiseTrapAfterHostLoop(s) == IF pc = "host" THEN pending ELSE pending \cup {s}
\* line 87: the trap is set before the first spawn, so a signal raised at
\* any later point stays pending until the supervisor takes it from the
\* trap (a signal that is already pending is not queued twice).
Raise(s) == pending \cup {s}

\* A running child exits or is killed: it becomes a zombie and the kernel
\* raises SIGCHLD, which the trap holds pending.
ChildExit(i) ==
    /\ Trapped
    /\ proc[i] = "running"
    /\ proc' = [proc EXCEPT ![i] = "zombie"]
    /\ pending' = Raise(SIGCHLD)
    /\ UNCHANGED stray
    /\ SupFrame

\* A child of the supervisor that is in no map exits.
StrayExit ==
    /\ Trapped
    /\ ~stray
    /\ stray' = TRUE
    /\ pending' = Raise(SIGCHLD)
    /\ UNCHANGED proc
    /\ SupFrame

\* Somebody sends SIGINT or SIGTERM to the supervisor; a signal that is
\* already pending is not queued twice.
ExternalSignal ==
    /\ Trapped
    /\ \E s \in {SIGINT, SIGTERM} \ pending : pending' = Raise(s)
    /\ UNCHANGED <<proc, stray>>
    /\ SupFrame

\* ----------------------------------------------------------- specification
\* the synchronous part of the function, up to its first wait on the trap
Launch ==
    \/ CheckMode \/ ParseArgs \/ Classify \/ CheckNetns \/ SetTrap
    \/ SpawnHost \/ HostDone
    \/ CreateDir \/ JoinGateway \/ UnshareMount \/ MountTmpfs
    \/ SetupBridge \/ StartForwarding
    \/ NsSetBridge \/ NsSetupContainer \/ NsSetNet \/ NsSetUts \/ NsSpawn
    \/ Reattach
    \/ ErrorBranch \/ EnterRunning \/ AssertFail

Supervisor ==
    \/ Launch
    \/ RunSIGINT \/ RunSIGTERM \/ RunSIGCHLD
    \/ StopSIGINT \/ StopSIGTERM \/ StopSIGCHLD

Environment ==
    \/ \E i \in 1..MaxChildren : ChildExit(i)
    \/ StrayExit
    \/ ExternalSignal

Next == Supervisor \/ Environment

Spec == Init /\ [][Next]_vars

\* A child that the supervisor sent SIGTERM to exits.
SignalledChildExit(i) == i \in signalled /\ ChildExit(i)

\* The supervisor runs its synchronous code to the end, the trap delivers
\* every signal that stays pending while the supervisor waits, and every
\* child exits once it has been sent SIGTERM.
FairSpec ==
    /\ Spec
    /\ WF_vars(Launch)
    /\ WF_vars(RunSIGINT) /\ WF_vars(RunSIGTERM) /\ WF_vars(RunSIGCHLD)
    /\ WF_vars(StopSIGINT) /\ WF_vars(StopSIGTERM) /\ WF_vars(StopSIGCHLD)
    /\ \A i \in 1..MaxChildren : WF_vars(SignalledChildExit(i))

TypeOK ==
    /\ pc \in {"start", "parse", "classify", "check_netns", "trap", "panic",
               "failed", "returned"} \cup
              {"host", "mkdir", "join_gw", "unshare_mount", "mount_tmpfs",
               "setup_bridge", "start_fwd", "ns_setbridge", "ns_setup",
               "ns_setnet", "ns_setuts", "ns_spawn", "reattach", "decide",
               "running", "stopping"}
    /\ children \subseteq 1..MaxChildren
    /\ signalled \subseteq 1..MaxChildren
    /\ pending \subseteq {SIGINT, SIGTERM, SIGCHLD}
    /\ port_forward_guard \in {"none", "new", "started", "released"}
    /\ \A i \in children : proc[i] \in {"running", "zombie"}

\* ================================================================ history
\* positions of the log holding a spawn attempt
SpawnAt == {j \in 1..Len(log) : log[j].ev = "spawn"}
\* names whose spawn was attempted / succeeded (inserted into `children`)
Attempted == {log[j].n : j \in SpawnAt}
Inserted == {log[j].n : j \in {k \in SpawnAt : log[k].ok}}
SpawnFailed == \E j \in SpawnAt : ~log[j].ok
Networked == Range(containers_in_netns)
NetnsChildren == Range(Filter(sup.children, "netns", 1))

\* the steps made once per run before the namespaced loop
SharedSteps == {"create_dir", "join_gateway_namespaces", "unshare_namespace",
                "mount_tmpfs", "setup_bridge", "start_forwarding"}
\* the steps made for one child inside the namespaced loop
ChildSteps == {"set_namespace_bridge", "setup_container",
               "set_namespace_net", "set_namespace_uts"}
TopoSteps == SharedSteps \cup ChildSteps \cup {"set_namespace_reattach"}
TopoFailedAt == {j \in 1..Len(log) : log[j].ev \in TopoSteps /\ ~log[j].ok}

\* step `ev` (of child n) succeeded before position j of the log
DoneBefore(ev, n, j) ==
    \E k \in 1..(j - 1) : log[k].ev = ev /\ log[k].n = n /\ log[k].ok

\* the launch phase is over and the function went on to line 190
LaunchDone == pc \in {"decide", "running", "stopping"} \/ trigger # "none"

\* ================================================================= claims

\* C1: first-exit-wins.  When the normal loop was left because a tracked
\* child was reaped, every child that was still tracked at that moment has
\* been sent SIGTERM by the supervisor by the time the function returns.
C1_FirstExitWins ==
    (result[1] = "ok" /\ trigger = "child_exit") => survivors \subseteq signalled

\* C2: a run in which a spawn failed returns the launch-failure code 127.
C2_LaunchFailureCode ==
    (error /\ result[1] = "ok") => result[2] = LaunchFailCode

\* C3: whenever run_supervise_command has returned (Ok or Err), the map of
\* tracked children is empty.
C3_NoReturnWithTrackedChildren ==
    result # NoResult => children = {}

\* C4: liveness.  Once the launch is over and a spawn failure, a child exit
\* or a terminate event has stopped the run, the function eventually
\* returns (the supervisor is scheduled, every child that was sent SIGTERM
\* exits).
C4_EventuallyDrained ==
    (trigger \in {"spawn_failure", "child_exit", "sigterm"}) ~> (pc = "returned")

\* C5: exactly-once reap.  No pid is removed from `children` more than
\* once, and when the function returns a result code every pid that was
\* inserted has been removed exactly once.
C5_ExactlyOnceReap ==
    /\ \A i \in 1..MaxChildren : removed[i] <= 1
    /\ \A i \in 1..MaxChildren : removed[i] = 1 => i \in Inserted
    /\ result[1] = "ok" => \A i \in Inserted : removed[i] = 1

\* C5 witness: a run returned with every inserted pid removed once, the
\* normal loop having been left by a sweep that reaped several tracked
\* children at once.
C5_Witness ==
    /\ result[1] = "ok"
    /\ trigger = "child_exit"
    /\ Cardinality(Inserted) >= 2
    /\ Cardinality(survivors) < Cardinality(Inserted) - 1
    /\ \A i \in Inserted : removed[i] = 1

\* C6: after a spawn failure the normal loop is never entered, and when
\* the supervisor starts draining every child of the tracked set has been
\* sent SIGTERM.
C6_LaunchFailureSignalsAll ==
    error =>
      /\ pc # "running"
      /\ trigger \in {"none", "spawn_failure"}
      /\ trigger = "spawn_failure" =>
            (survivors \subseteq signalled /\ children \subseteq survivors)

\* C6 witness: draining after a spawn failure with a child that did start
\* and has been sent SIGTERM.
C6_Witness ==
    /\ error
    /\ pc = "stopping"
    /\ survivors # {}
    /\ survivors \subseteq signalled

\* C7: without networked children, the spawn of every host-net child has
\* been attempted when the launch phase is over, whatever failed before;
\* a failed spawn does nothing but set `error`.
C7_EveryHostChildAttempted ==
    /\ (Len(containers_in_netns) = 0 /\ LaunchDone)
          => Attempted = Range(containers_host_net)
    /\ error <=> SpawnFailed
    /\ (Len(containers_in_netns) = 0 /\ SpawnFailed) => pc # "failed"

\* C7 witness: a host-net child was spawned after the spawn of an earlier
\* one failed.
C7_Witness ==
    /\ Len(containers_in_netns) = 0
    /\ LaunchDone
    /\ \E j, k \in SpawnAt : j < k /\ ~log[j].ok /\ log[k].ok

C10_NetnsNotSetUp ==
    (Len(containers_in_netns) > 0 /\ ~netns_set_up) =>
        /\ Attempted = {}
        /\ \A i \in 1..MaxChildren : proc[i] = "none"
        /\ \A j \in 1..Len(log) : log[j].ev = "build_container"
        /\ port_forward_guard = "none"
        /\ cur_net = NsHost /\ cur_uts = NsHost
        /\ pc \in {"start", "parse", "classify", "check_netns", "panic",
                   "failed", "returned"}
        /\ pc = "returned" => result \in {Ok(0), Ok(ArgErrCode)}
        /\ pc = "failed" =>
              result \in {Err("netns_not_set_up"), Err("build_container")}
        /\ (pc = "failed" /\ \A j \in 1..Len(log) : log[j].ok)
              => result = Err("netns_not_set_up")

\* C10 witness: the configuration error was returned for a plan that also
\* has host-net children.
C10_Witness ==
    /\ result = Err("netns_not_set_up")
    /\ Len(containers_host_net) > 0
    /\ Len(containers_in_netns) > 0
    /\ ~netns_set_up

\* C11: no missed child death.  No spawn is attempted before the trap is
\* set, and from then on, as long as the function has not returned, a
\* tracked child that has exited and is not yet reaped always has a SIGCHLD
\* pending in the trap: the supervisor never waits with an un-reaped
\* tracked child and nothing to wake it up.
C11_NoMissedChildDeath ==
    /\ ~Trapped /\ result = NoResult /\ pc # "panic" => Attempted = {}
    /\ Trapped =>
          ((\E i \in children : proc[i] = "zombie") => SIGCHLD \in pending)
    /\ \A i \in 1..MaxChildren : proc[i] = "zombie" => i \in children

\* C11 witness: the supervisor reaches its first wait with a tracked child
\* that exited during the launch phase, and the SIGCHLD is pending.
C11_Witness ==
    /\ pc = "running"
    /\ trigger = "none"
    /\ \E i \in children : proc[i] = "zombie"
    /\ \E i \in children : proc[i] = "running"
    /\ SIGCHLD \in pending

\* C12: when a child-death event stopped the run, the code returned is the
\* one derived from the status of the first reaped process that was in the
\* tracked set: its exit code for a normal exit, 128 + the signal number
\* for a process killed by a signal; nothing reaped later changes it.
C12_CodeOfFirstTrackedExit ==
    trigger = "child_exit" =>
        /\ first_exit[1] \in Inserted
        /\ errcode = convert_status(first_exit[2])
        /\ result # NoResult => result = Ok(errcode)
        /\ first_exit[2][1] = "exit" => errcode = first_exit[2][2]
        /\ first_exit[2][1] = "signal" => errcode = 128 + first_exit[2][2]

\* C12 witness: a run returned the signal-termination code of the first
\* tracked child of a sweep that also reaped another child.
C12_Witness ==
    /\ result[1] = "ok"
    /\ trigger = "child_exit"
    /\ first_exit[2][1] = "signal"
    /\ result[2] > 128
    /\ Cardinality(Inserted) >= 2
    /\ survivors = {}

\* C13: an interrupt consumed in the normal loop sends no signal to any
\* child and removes none, sets the result code to 128+SIGINT and leaves
\* the loop; that code is returned, and only once every child that was
\* tracked has been reaped.
C13_InterruptInRunning ==
    /\ [](trigger = "sigint" =>
            /\ pc \in {"stopping", "returned"}
            /\ errcode = 128 + SIGINT
            /\ result # NoResult =>
                  /\ result = Ok(128 + SIGINT)
                  /\ children = {}
                  /\ \A i \in survivors : proc[i] = "reaped")
    /\ [][(pc = "running" /\ trigger' = "sigint") =>
            /\ SIGINT \in pending /\ SIGINT \notin pending'
            /\ signalled' = signalled
            /\ children' = children
            /\ pc' # "running"]_vars

\* C13 witness: a run stopped by an interrupt returned 128+SIGINT after two
\* children, neither of which was ever signalled, were reaped.
C13_Witness ==
    /\ trigger = "sigint"
    /\ result = Ok(128 + SIGINT)
    /\ Cardinality(survivors) >= 2
    /\ signalled = {}

\* C14: a terminate event consumed in the normal loop sends SIGTERM to
\* every child of the tracked set, whatever state the others are in, sets
\* the result code to 128+SIGINT (not 128+SIGTERM) and leaves the loop.
C14_TerminateInRunning ==
    /\ [](trigger = "sigterm" =>
            /\ pc \in {"stopping", "returned"}
            /\ survivors \subseteq signalled
            /\ errcode = 128 + SIGINT
            /\ errcode # 128 + SIGTERM
            /\ result # NoResult => result = Ok(128 + SIGINT))
    /\ [][(pc = "running" /\ trigger' = "sigterm") =>
            /\ SIGTERM \in pending /\ SIGTERM \notin pending'
            /\ signalled' = signalled \cup children
            /\ children' = children
            /\ pc' # "running"]_vars

\* C14 witness: the terminate event found one tracked child already exited
\* and one running; both were sent SIGTERM and the supervisor drains.
C14_Witness ==
    /\ trigger = "sigterm"
    /\ pc = "stopping"
    /\ \E i \in survivors : proc[i] = "zombie"
    /\ \E i \in survivors : proc[i] = "running"
    /\ survivors \subseteq signalled
    /\ errcode = 128 + SIGINT

\* positions of the log where start_forwarding() was called
ForwardingAt == {j \in 1..Len(log) : log[j].ev = "start_forwarding"}

\* C15: start_forwarding is called at most once per run, after the bridge
\* was set up and before the spawn of any networked child; the guard is
\* released at the return of the function, on every path that returns after
\* the guard was constructed (Ok, or Err from start_forwarding or from any
\* later step), never before, and once released it stays released.
C15_GuardScoped ==
    /\ [](/\ Cardinality(ForwardingAt) <= 1
          /\ \A j \in ForwardingAt :
                /\ DoneBefore("setup_bridge", 0, j)
                /\ \A k \in SpawnAt : log[k].n \in Networked => j < k
          /\ \A k \in SpawnAt :
                log[k].n \in Networked => DoneBefore("start_forwarding", 0, k)
          /\ ForwardingAt = {} => port_forward_guard = "none"
          /\ (ForwardingAt # {} /\ result = NoResult)
                => port_forward_guard = "started"
          /\ (ForwardingAt # {} /\ result # NoResult)
                => port_forward_guard = "released")
    /\ [][port_forward_guard = "released"
             => port_forward_guard' = "released"]_vars

\* C15 witness: a step after start_forwarding failed (the namespace setup
\* of a child) and the function returned Err with the guard released.
C15_Witness ==
    /\ result = Err("setup_container")
    /\ ForwardingAt # {}
    /\ port_forward_guard = "released"

\* the step takes signal s from the trap while the supervisor is stopping
StopTakes(s) ==
    pc = "stopping" /\ s \in pending /\ pending' = pending \ {s}

\* C16: in the stopping loop an interrupt changes nothing and signals
\* nobody; a terminate event sends SIGTERM to every child still tracked and
\* removes none; a child-death event removes exactly the tracked children
\* that have exited, which are reaped; the loop is left, and the function
\* returns, exactly when a child-death event empties the tracked set.
C16_StoppingLoop ==
    /\ [](pc = "stopping" => children # {})
    /\ [][StopTakes(SIGINT) =>
            UNCHANGED <<pc, children, signalled, proc, errcode, result,
                        removed>>]_vars
    /\ [][StopTakes(SIGTERM) =>
            /\ signalled' = signalled \cup children
            /\ UNCHANGED <<pc, children, proc, errcode, result,
                           removed>>]_vars
    /\ [][StopTakes(SIGCHLD) =>
            /\ children' = {i \in children : proc[i] # "zombie"}
            /\ \A i \in children \ children' : proc'[i] = "reaped"
            /\ signalled' = signalled
            /\ (pc' = "returned") <=> (children' = {})
            /\ (pc' = "stopping") <=> (children' # {})]_vars
    /\ [][(pc = "stopping" /\ pc' # "stopping") =>
            (StopTakes(SIGCHLD) /\ children # {} /\ children' = {}
               /\ pc' = "returned")]_vars

\* C16 witness: the stopping loop has taken a child-death event that
\* removed one child and left another one tracked, and goes on waiting.
C16_Witness ==
    /\ pc = "stopping"
    /\ Cardinality(children) = 1
    /\ \E i \in survivors : removed[i] = 1
    /\ \A i \in children : removed[i] = 0

\* C17: the result code is computed once.  From the moment the normal loop
\* is left (or skipped after a launch failure) no step changes errcode,
\* whatever is handled while stopping, and the code returned is that one.
C17_CodeComputedOnce ==
    /\ [][trigger # "none" => errcode' = errcode]_vars
    /\ [][(pc = "stopping" /\ result' # NoResult) => result' = Ok(errcode)]_vars
    /\ []((trigger # "none" /\ result # NoResult) => result = Ok(errcode))

\* C17 witness: a run stopped by the exit of a child with status 0 returned
\* 0 after the stopping loop reaped a child that was left.
C17_Witness ==
    /\ trigger = "child_exit"
    /\ first_exit[2] = <<"exit", 0>>
    /\ survivors # {}
    /\ \A i \in survivors : proc[i] = "reaped"
    /\ result = Ok(0)

\* the spawn of child n was attempted before position j of the log
SpawnedBefore(n, j) ==
    \E k \in 1..(j - 1) : log[k].ev = "spawn" /\ log[k].n = n

\* C18: launch order.  When the supervisor joins the gateway namespaces,
\* and when the spawn of a networked child is attempted, the spawn of every
\* host-net child of the plan has been attempted; when the spawn of a
\* bridge child is attempted, the spawn of every namespaced non-bridge
\* child of the plan has been attempted.
C18_LaunchOrder ==
    /\ \A j \in 1..Len(log) :
          (\/ log[j].ev = "join_gateway_namespaces"
           \/ (log[j].ev = "spawn" /\ log[j].n \in Networked))
             => \A h \in Range(containers_host_net) : SpawnedBefore(h, j)
    /\ \A j \in SpawnAt :
          sup.children[log[j].n] = "bridge"
             => \A c \in NetnsChildren : SpawnedBefore(c, j)

\* C18 witness: the launch is over for a plan that names the bridge before
\* a namespaced child; the bridge was spawned after that child.
C18_Witness ==
    /\ LaunchDone
    /\ \E j, k \in SpawnAt :
          /\ j < k
          /\ sup.children[log[j].n] = "netns"
          /\ sup.children[log[k].n] = "bridge"
          /\ log[k].n < log[j].n

\* C19: in a run with a networked child whose launch phase completed, the
\* supervisor is in the bridge network namespace from the end of the
\* launch phase until it returns: the last step of the launch phase is the
\* successful re-attach to the bridge, made after every per-child
\* namespace was created and every networked child's spawn was attempted,
\* and no later step changes the namespace.
C19_BridgeKeptAlive ==
    /\ []((Len(containers_in_netns) > 0 /\ LaunchDone) =>
            /\ cur_net = NsBridge
            /\ log[Len(log)].ev = "set_namespace_reattach"
            /\ log[Len(log)].ok
            /\ \A c \in NetnsChildren :
                  DoneBefore("setup_container", c, Len(log))
            /\ \A c \in Networked : SpawnedBefore(c, Len(log)))
    /\ [][LaunchDone => (cur_net' = cur_net /\ log' = log)]_vars

\* C19 witness: no bridge child in the plan; the last namespaced child was
\* spawned from its own namespace and the supervisor waits in the normal
\* loop, back in the bridge namespace.
C19_Witness ==
    /\ pc = "running"
    /\ Len(bridges) = 0
    /\ Cardinality(Inserted \cap NetnsChildren) >= 2
    /\ cur_net = NsBridge
    /\ cur_uts = NsChild(containers_in_netns[Len(containers_in_netns)])

\* C20: when the spawn of a bridge child is attempted, the supervisor is in
\* the bridge network namespace and its UTS namespace is not the hostname
\* namespace of any per-child namespace.
C20_BridgeSpawnNamespaces ==
    (pc = "ns_spawn" /\ sup.children[containers_in_netns[idx]] = "bridge") =>
        /\ cur_net = NsBridge
        /\ cur_uts[1] # "child"

====
